---- MODULE Spec2Model ----
(***************************************************************************)
(* Model of spotify-service (src/src/main.rs): the process-wide playback   *)
(* snapshot behind a tokio Mutex, the auth-secret Mutex, the startup       *)
(* synchronization of main, and the request handlers get_current_playback, *)
(* toggle_playback, next_track, previous_track and restart_track.          *)
(*                                                                         *)
(* A handler is cut into one action per await point: between two awaits    *)
(* its code runs without interleaving.  Option<T> is a sequence of length  *)
(* at most one: None is <<>>, Some(x) is <<x>>.  A panic (unwrap, expect,  *)
(* unreachable!) unwinds the handler task: its guards are dropped, so the  *)
(* locks it holds are released, and no response value is returned.         *)
(*                                                                         *)
(* A lock is its owner; a waiting lock().await is granted in any order.    *)
(* tokio's Mutex grants in arrival order, which is one of these orders: a  *)
(* read that asked for the lock while a command's update_state held it is  *)
(* granted before the command's own second lock().await.                   *)
(***************************************************************************)
EXTENDS Integers, Sequences, FiniteSets, TLC

\* ------------------------------------------------------------------ bounds
\* Number of requests of one behaviour; all of them may be in flight at the
\* same time.  Requests are numbered in the order they arrive.
NumReqs == 2

Reqs == 1..NumReqs
\* The owner id of the startup code of main, which is no request.
MainId == 0

\* ------------------------------------------------------------- data model
None == <<>>
Some(x) == <<x>>

\* The value of the AUTH_TOKEN environment variable, read once.
AUTH_TOKEN == "secret"
\* auth_token query parameters a caller may send.
Tokens == {"secret", "wrong"}

Commands == {"toggle", "next", "previous", "restart"}
Kinds == Commands \cup {"read"}

\* struct PlaybackState
PlaybackState(p, pos, d) == [is_playing |-> p, position |-> pos, device_id |-> d]

\* Seconds rounded to the nearest instead of truncated.
NumSecondsRounded(ms) == (ms + 500) \div 1000

\* Duration::num_seconds() of a progress given in the provider's milliseconds:
\* whole seconds, truncated toward zero.  The provider's progress is never
\* negative, so the following `as u64` keeps the value.
NumSeconds(ms) == IF ms >= 0 THEN ms \div 1000 ELSE -((-ms) \div 1000)

\* A CurrentPlaybackContext as far as the handlers look at it: is_playing,
\* progress (Option, ms), device.id (Option) and the kind of item
\* ("track", "episode", or "none" for item = None).
Context(p, prog, dev, item) ==
    [is_playing |-> p, progress |-> prog, device_id |-> dev, item |-> item]

\* Result<Option<CurrentPlaybackContext>, ClientError> of current_playback().
OkSome(c) == [ok |-> TRUE, ctx |-> Some(c)]
OkNone == [ok |-> TRUE, ctx |-> None]
ErrRes == [ok |-> FALSE, ctx |-> None]

\* The provider answers a current-playback query with any of these.
Responses ==
    { OkNone, ErrRes,
      OkSome(Context(TRUE, Some(1500), Some("D1"), "track")),
      OkSome(Context(FALSE, Some(2999), Some("D2"), "track")),
      OkSome(Context(FALSE, Some(0), Some("D1"), "episode")),
      OkSome(Context(FALSE, Some(1000), Some("D2"), "none")),
      OkSome(Context(TRUE, None, Some("D1"), "track")),
      OkSome(Context(FALSE, Some(500), None, "track")) }

\* One call to the provider, as recorded per request.
Call(op, dev, pos) == [op |-> op, device |-> dev, pos |-> pos]
QueryCall == Call("current_playback", None, None)
TrackCall == Call("track", None, None)
MutationOps == {"pause", "resume", "next", "previous", "seek"}

\* What a handler hands back to the framework.
Response(status, body) == [kind |-> "Response", status |-> status, body |-> body]
Err(msg) == [kind |-> "Err", status |-> 0, body |-> msg]
Panic == [kind |-> "Panic", status |-> 0, body |-> ""]

InvalidToken == Response(400, "{\"message\": \"invalid token\"}")

VARIABLES
    mainpc,           \* position of main: "start", "sync", "serving", "crashed"
    playback_status,  \* SpotifyState.playback_status: Option<PlaybackState>
    stateLock,        \* owner of the Mutex<SpotifyState>: Option<id>
    tokenLock,        \* owner of the AUTH_TOKEN Mutex: Option<id>
    kind,             \* per request: the route
    token,            \* per request: params.auth_token
    pc,               \* per request: the await point it is at
    playing,          \* per request: `playing` of get_current_playback (Option)
    playback,         \* per request: the clone a command read (Option)
    refreshed,        \* per request: what its own update_state wrote (Option of Option)
    calls,            \* per request: the provider calls it made, in order
    writes,           \* per request: number of writes to playback_status
    dispatched,       \* per request: Option of whether its mutation call succeeded
    result,           \* per request: Option of what the handler returned
    lastResp,         \* the last current-playback response any query got (Option)
    img               \* the one get_resized_image request: inputs, position, response

vars == <<mainpc, playback_status, stateLock, tokenLock, kind, token, pc,
          playing, playback, refreshed, calls, writes, dispatched, result,
          lastResp, img>>

reqvars == <<kind, token, pc, playing, playback, refreshed, calls, writes,
             dispatched, result>>

\* The image request before it is made.
ImgOff ==
    [pc |-> "off", fetch_ok |-> TRUE, status |-> 200, content_type |-> None,
     bytes_ok |-> TRUE, decodable |-> TRUE, steps |-> <<>>, response |-> None]

\* The shared state as main builds it, and no request yet.
StateInit ==
    /\ mainpc = "start"
    /\ playback_status = None
    /\ stateLock = None
    /\ tokenLock = None
    /\ kind = [r \in Reqs |-> "read"]
    /\ token = [r \in Reqs |-> AUTH_TOKEN]
    /\ pc = [r \in Reqs |-> "idle"]
    /\ playing = [r \in Reqs |-> None]
    /\ playback = [r \in Reqs |-> None]
    /\ refreshed = [r \in Reqs |-> None]
    /\ calls = [r \in Reqs |-> <<>>]
    /\ writes = [r \in Reqs |-> 0]
    /\ dispatched = [r \in Reqs |-> None]
    /\ result = [r \in Reqs |-> None]
    /\ lastResp = None

Init == StateInit /\ img = ImgOff

\* ------------------------------------------------------- handler pieces
\* A gate that lets every token through.
TokenMatchesAny(supplied) == TRUE

\* The gate: `locked_token.as_str() != auth_token` is the rejection.
TokenMatches(supplied) == supplied = AUTH_TOKEN

\* The unwraps of the projection: progress.unwrap() and device.id.unwrap().
CanProject(c) == c.progress # None /\ c.device_id # None

\* The PlaybackState built from a context.
Project(c) == PlaybackState(c.is_playing, NumSeconds(c.progress[1]), c.device_id[1])

\* update_state with unwrap_or_default() on the device id.
UpdateOutcomeDefaultDevice(res) ==
    IF res.ok /\ res.ctx # None
    THEN IF res.ctx[1].progress # None
         THEN [panic |-> FALSE,
               status |-> Some(PlaybackState(res.ctx[1].is_playing,
                                             NumSeconds(res.ctx[1].progress[1]),
                                             IF res.ctx[1].device_id = None THEN ""
                                             ELSE res.ctx[1].device_id[1]))]
         ELSE [panic |-> TRUE, status |-> None]
    ELSE [panic |-> FALSE, status |-> None]

\* The match of update_state: "panic" when an unwrap fails, else the new
\* value of playback_status.
UpdateOutcome(res) ==
    IF res.ok /\ res.ctx # None
    THEN IF CanProject(res.ctx[1])
         THEN [panic |-> FALSE, status |-> Some(Project(res.ctx[1]))]
         ELSE [panic |-> TRUE, status |-> None]
    ELSE [panic |-> FALSE, status |-> None]

\* Whether a command goes on to its provider call with the snapshot it read.
\* toggle: `if let Some(..)`; the others unwrap.
HasSnapshot(st) == st # None

\* What a command does when it read no snapshot.
AbsentOutcome(k) == IF k = "toggle" THEN Err("Could not toggle playback") ELSE Panic

\* toggle with its two branches exchanged.
DispatchCallSwapped(k, pb) ==
    CASE k = "toggle" ->
            IF pb.is_playing
            THEN Call("resume", Some(pb.device_id), Some(pb.position))
            ELSE Call("pause", Some(pb.device_id), None)
      [] k = "next" -> Call("next", Some(pb.device_id), None)
      [] k = "previous" -> Call("previous", Some(pb.device_id), None)
      [] OTHER -> Call("seek", Some(pb.device_id), Some(0))

\* next and previous exchanged.
DispatchCallSkipsSwapped(k, pb) ==
    CASE k = "toggle" ->
            IF pb.is_playing
            THEN Call("pause", Some(pb.device_id), None)
            ELSE Call("resume", Some(pb.device_id), Some(pb.position))
      [] k = "next" -> Call("previous", Some(pb.device_id), None)
      [] k = "previous" -> Call("next", Some(pb.device_id), None)
      [] OTHER -> Call("seek", Some(pb.device_id), Some(0))

\* restart that seeks to the snapshot's position instead of zero.
DispatchCallSeekPosition(k, pb) ==
    CASE k = "toggle" ->
            IF pb.is_playing
            THEN Call("pause", Some(pb.device_id), None)
            ELSE Call("resume", Some(pb.device_id), Some(pb.position))
      [] k = "next" -> Call("next", Some(pb.device_id), None)
      [] k = "previous" -> Call("previous", Some(pb.device_id), None)
      [] OTHER -> Call("seek", Some(pb.device_id), Some(pb.position))

\* The provider call a command makes on the snapshot it read.
DispatchCall(k, pb) ==
    CASE k = "toggle" ->
            IF pb.is_playing
            THEN Call("pause", Some(pb.device_id), None)
            ELSE Call("resume", Some(pb.device_id), Some(pb.position))
      [] k = "next" -> Call("next", Some(pb.device_id), None)
      [] k = "previous" -> Call("previous", Some(pb.device_id), None)
      [] OTHER -> Call("seek", Some(pb.device_id), Some(0))

\* The local clone after toggle's call: playback.is_playing = false.
AfterToggle(pb) == [pb EXCEPT !.is_playing = FALSE]

\* A dispatch that assigns is_playing = false to the shared state.
SharedFlagCleared(st) ==
    IF st = None THEN st ELSE Some([st[1] EXCEPT !.is_playing = FALSE])

\* What the dispatch of a command leaves in the shared playback_status: the
\* handlers assign to their clone only.
SharedAfterDispatch(st) == st

\* The body of a command's acknowledgement.
AckBody(k, pb) ==
    CASE k = "toggle" ->
            IF pb.is_playing
            THEN "{\"message\": \"playback paused\"}"
            ELSE "{\"message\": \"playback resumed\"}"
      [] k = "next" -> "{\"message\": \"successfully skipped to the next track\""
      [] k = "previous" -> "{\"message\": \"successfully skipped to the previous track\""
      [] OTHER -> "{\"message\": \"successfully restarted the track\""

\* A dispatch that hands the provider's failure to the caller.
AckSurfaced(k, pb, ok) ==
    IF ok THEN Response(200, AckBody(k, pb)) ELSE Err("provider error")

\* The acknowledgement of a command; `ok` is whether the provider call
\* succeeded (`let _ =` drops it).
Ack(k, pb, ok) == Response(200, AckBody(k, pb))

\* A read that reports "nothing playing" as an error.
IdleAsError == Err("nothing is playing")

\* The responses of get_current_playback.
ActiveView == Response(200, "CurrentlyPlaying")
Idle == Response(200, "")
ReadFailure == Err("Error with getting playback, provider error")

\* ------------------------------------------------------------------ main
\* main builds the shared state and calls update_state, which takes the lock
\* and sends the query.
MainStart ==
    /\ UNCHANGED img
    /\ mainpc = "start"
    /\ stateLock = None
    /\ mainpc' = "sync"
    /\ stateLock' = Some(MainId)
    /\ UNCHANGED <<playback_status, tokenLock, reqvars, lastResp>>

\* The query of the startup update_state returns; a panic ends the process.
MainSync ==
    /\ UNCHANGED img
    /\ mainpc = "sync"
    /\ \E res \in Responses :
        LET out == UpdateOutcome(res) IN
        /\ lastResp' = Some(res)
        /\ stateLock' = None
        /\ IF out.panic
           THEN /\ mainpc' = "crashed"
                /\ UNCHANGED playback_status
           ELSE /\ mainpc' = "serving"
                /\ playback_status' = out.status
    /\ UNCHANGED <<tokenLock, reqvars>>

\* ------------------------------------------------------------- requests
\* A server that accepts requests before the startup update_state is over.
ArriveAnytime(r) ==
    /\ UNCHANGED img
    /\ mainpc # "crashed"
    /\ pc[r] = "idle"
    /\ \A q \in Reqs : q < r => pc[q] # "idle"
    /\ \E k \in Kinds, t \in Tokens :
        /\ k = "read" => t = AUTH_TOKEN
        /\ kind' = [kind EXCEPT ![r] = k]
        /\ token' = [token EXCEPT ![r] = t]
        /\ pc' = [pc EXCEPT ![r] = IF k = "read" THEN "rd_lock" ELSE "gate"]
    /\ UNCHANGED <<mainpc, playback_status, stateLock, tokenLock, playing, playback,
                   refreshed, calls, writes, dispatched, result, lastResp>>

\* The framework starts a handler task for a request.
Arrive(r) ==
    /\ UNCHANGED img
    /\ mainpc = "serving"
    /\ pc[r] = "idle"
    /\ \A q \in Reqs : q < r => pc[q] # "idle"
    /\ \E k \in Kinds, t \in Tokens :
        /\ k = "read" => t = AUTH_TOKEN
        /\ kind' = [kind EXCEPT ![r] = k]
        /\ token' = [token EXCEPT ![r] = t]
        /\ pc' = [pc EXCEPT ![r] = IF k = "read" THEN "rd_lock" ELSE "gate"]
    /\ UNCHANGED <<mainpc, playback_status, stateLock, tokenLock, playing, playback,
                   refreshed, calls, writes, dispatched, result, lastResp>>

\* A handler whose guards stay locked when it panics.
FinishLeakingOnPanic(r, res) ==
    /\ pc' = [pc EXCEPT ![r] = "done"]
    /\ result' = [result EXCEPT ![r] = Some(res)]
    /\ stateLock' = IF stateLock = Some(r) /\ res.kind # "Panic" THEN None ELSE stateLock
    /\ tokenLock' = IF tokenLock = Some(r) /\ res.kind # "Panic" THEN None ELSE tokenLock

\* A handler ends: its guards are dropped and `res` goes to the framework.
Finish(r, res) ==
    /\ pc' = [pc EXCEPT ![r] = "done"]
    /\ result' = [result EXCEPT ![r] = Some(res)]
    /\ stateLock' = IF stateLock = Some(r) THEN None ELSE stateLock
    /\ tokenLock' = IF tokenLock = Some(r) THEN None ELSE tokenLock

\* A gate whose guard is dropped right after the comparison.
GateDropsGuard(r) ==
    /\ UNCHANGED img
    /\ pc[r] = "gate"
    /\ tokenLock = None
    /\ IF TokenMatches(token[r])
       THEN /\ pc' = [pc EXCEPT ![r] = "upd_lock"]
            /\ UNCHANGED <<result, stateLock, tokenLock>>
       ELSE Finish(r, InvalidToken)
    /\ UNCHANGED <<mainpc, playback_status, kind, token, playing, playback,
                   refreshed, calls, writes, dispatched, lastResp>>

\* AUTH_TOKEN.lock().await is granted, then the comparison.
Gate(r) ==
    /\ UNCHANGED img
    /\ pc[r] = "gate"
    /\ tokenLock = None
    /\ IF TokenMatches(token[r])
       THEN /\ tokenLock' = Some(r)
            /\ pc' = [pc EXCEPT ![r] = "upd_lock"]
            /\ UNCHANGED <<result, stateLock>>
       ELSE Finish(r, InvalidToken)
    /\ UNCHANGED <<mainpc, playback_status, kind, token, playing, playback,
                   refreshed, calls, writes, dispatched, lastResp>>

\* update_state that sends its query without holding the lock.
UpdLockNoGuard(r) ==
    /\ UNCHANGED img
    /\ pc[r] = "upd_lock"
    /\ calls' = [calls EXCEPT ![r] = Append(@, QueryCall)]
    /\ pc' = [pc EXCEPT ![r] = "upd_call"]
    /\ UNCHANGED <<mainpc, playback_status, stateLock, tokenLock, kind, token, playing,
                   playback, refreshed, writes, dispatched, result, lastResp>>

\* update_state: state.lock().await is granted and the query is sent.
UpdLock(r) ==
    /\ UNCHANGED img
    /\ pc[r] = "upd_lock"
    /\ stateLock = None
    /\ stateLock' = Some(r)
    /\ calls' = [calls EXCEPT ![r] = Append(@, QueryCall)]
    /\ pc' = [pc EXCEPT ![r] = "upd_call"]
    /\ UNCHANGED <<mainpc, playback_status, tokenLock, kind, token, playing,
                   playback, refreshed, writes, dispatched, result, lastResp>>

\* update_state: the query returns, the match writes playback_status, and the
\* guard is dropped when update_state returns.
UpdReturn(r) ==
    /\ UNCHANGED img
    /\ pc[r] = "upd_call"
    /\ \E res \in Responses :
        LET out == UpdateOutcome(res) IN
        /\ lastResp' = Some(res)
        /\ IF out.panic
           THEN /\ Finish(r, Panic)
                /\ UNCHANGED <<playback_status, writes, refreshed>>
           ELSE /\ playback_status' = out.status
                /\ writes' = [writes EXCEPT ![r] = @ + 1]
                /\ refreshed' = [refreshed EXCEPT ![r] = Some(out.status)]
                /\ stateLock' = None
                /\ pc' = [pc EXCEPT ![r] = "cmd_lock"]
                /\ UNCHANGED <<result, tokenLock>>
    /\ UNCHANGED <<mainpc, kind, token, playing, playback, calls, dispatched>>

\* The command's own state.lock().await is granted; it clones the snapshot
\* and either sends its provider call or ends.
CmdLock(r) ==
    /\ UNCHANGED img
    /\ pc[r] = "cmd_lock"
    /\ stateLock = None
    /\ playback' = [playback EXCEPT ![r] = playback_status]
    /\ IF HasSnapshot(playback_status)
       THEN /\ stateLock' = Some(r)
            /\ calls' = [calls EXCEPT ![r] =
                            Append(@, DispatchCall(kind[r], playback_status[1]))]
            /\ pc' = [pc EXCEPT ![r] = "dispatch"]
            /\ UNCHANGED <<result, tokenLock>>
       ELSE /\ Finish(r, AbsentOutcome(kind[r]))
            /\ UNCHANGED calls
    /\ UNCHANGED <<mainpc, playback_status, kind, token, playing, refreshed,
                   writes, dispatched, lastResp>>

\* A dispatch that sends its call once more when it failed.
DispatchReturnRetry(r) ==
    /\ UNCHANGED img
    /\ pc[r] = "dispatch"
    /\ \E ok \in BOOLEAN :
        IF ~ok /\ Len(calls[r]) < 3
        THEN /\ calls' = [calls EXCEPT ![r] = Append(@, @[Len(@)])]
             /\ UNCHANGED <<pc, result, stateLock, tokenLock, dispatched, playback,
                            playback_status>>
        ELSE /\ dispatched' = [dispatched EXCEPT ![r] = Some(ok)]
             /\ Finish(r, Ack(kind[r], playback[r][1], ok))
             /\ playback' = [playback EXCEPT ![r] =
                                IF kind[r] = "toggle" THEN Some(AfterToggle(@[1])) ELSE @]
             /\ playback_status' = SharedAfterDispatch(playback_status)
             /\ UNCHANGED calls
    /\ UNCHANGED <<mainpc, kind, token, playing, refreshed, writes, lastResp>>

\* The provider call of a command returns, with success or failure.
DispatchReturn(r) ==
    /\ UNCHANGED img
    /\ pc[r] = "dispatch"
    /\ \E ok \in BOOLEAN :
        /\ dispatched' = [dispatched EXCEPT ![r] = Some(ok)]
        /\ Finish(r, Ack(kind[r], playback[r][1], ok))
    /\ playback' = [playback EXCEPT ![r] =
                       IF kind[r] = "toggle" THEN Some(AfterToggle(@[1])) ELSE @]
    /\ playback_status' = SharedAfterDispatch(playback_status)
    /\ UNCHANGED <<mainpc, kind, token, playing, refreshed, calls, writes,
                   lastResp>>

\* get_current_playback: state.lock().await is granted and the query is sent.
RdLock(r) ==
    /\ UNCHANGED img
    /\ pc[r] = "rd_lock"
    /\ stateLock = None
    /\ stateLock' = Some(r)
    /\ calls' = [calls EXCEPT ![r] = Append(@, QueryCall)]
    /\ pc' = [pc EXCEPT ![r] = "rd_call"]
    /\ UNCHANGED <<mainpc, playback_status, tokenLock, kind, token, playing,
                   playback, refreshed, writes, dispatched, result, lastResp>>

\* get_current_playback: the query returns.
RdReturn(r) ==
    /\ UNCHANGED img
    /\ pc[r] = "rd_call"
    /\ \E res \in Responses :
        /\ lastResp' = Some(res)
        /\ IF res.ok /\ res.ctx # None
           THEN IF res.ctx[1].item = "track"
                THEN \* the track lookup is sent
                     /\ playing' = [playing EXCEPT ![r] = res.ctx]
                     /\ calls' = [calls EXCEPT ![r] = Append(@, TrackCall)]
                     /\ pc' = [pc EXCEPT ![r] = "rd_track"]
                     /\ UNCHANGED <<playback_status, writes, result, stateLock, tokenLock>>
                ELSE \* item.unwrap() on None, or unreachable! on an episode
                     /\ Finish(r, Panic)
                     /\ UNCHANGED <<playback_status, writes, playing, calls>>
           ELSE /\ playback_status' = None
                /\ writes' = [writes EXCEPT ![r] = @ + 1]
                /\ Finish(r, IF res.ok THEN Idle ELSE ReadFailure)
                /\ UNCHANGED <<playing, calls>>
    /\ UNCHANGED <<mainpc, kind, token, playback, refreshed, dispatched>>

\* get_current_playback: the track lookup returns.
RdTrack(r) ==
    /\ UNCHANGED img
    /\ pc[r] = "rd_track"
    /\ \E ok \in BOOLEAN :
        IF ok /\ CanProject(playing[r][1])
        THEN /\ playback_status' = Some(Project(playing[r][1]))
             /\ writes' = [writes EXCEPT ![r] = @ + 1]
             /\ Finish(r, ActiveView)
        ELSE \* expect() on the failed lookup, or a failed unwrap
             /\ Finish(r, Panic)
             /\ UNCHANGED <<playback_status, writes>>
    /\ UNCHANGED <<mainpc, kind, token, playing, playback, refreshed, calls,
                   dispatched, lastResp>>

Next ==
    \/ MainStart
    \/ MainSync
    \/ \E r \in Reqs : Arrive(r)
    \/ \E r \in Reqs : Gate(r)
    \/ \E r \in Reqs : UpdLock(r)
    \/ \E r \in Reqs : UpdReturn(r)
    \/ \E r \in Reqs : CmdLock(r)
    \/ \E r \in Reqs : DispatchReturn(r)
    \/ \E r \in Reqs : RdLock(r)
    \/ \E r \in Reqs : RdReturn(r)
    \/ \E r \in Reqs : RdTrack(r)

Spec == Init /\ [][Next]_vars

\* The steps of a handler that wait for a lock, and those that wait for a
\* provider call.
Acquire(r) == Gate(r) \/ UpdLock(r) \/ CmdLock(r) \/ RdLock(r)
Return(r) == UpdReturn(r) \/ DispatchReturn(r) \/ RdReturn(r) \/ RdTrack(r)

\* Every provider call returns, the runtime polls every ready task, and a
\* lock that is free again and again is granted to each waiter.  Requests
\* need not arrive.
Fairness ==
    /\ WF_vars(MainStart)
    /\ WF_vars(MainSync)
    /\ \A r \in Reqs : SF_vars(Acquire(r)) /\ WF_vars(Return(r))

FairSpec == Spec /\ Fairness

TypeOK ==
    /\ mainpc \in {"start", "sync", "serving", "crashed"}
    /\ Len(playback_status) <= 1
    /\ \A r \in Reqs : kind[r] \in Kinds /\ token[r] \in Tokens

\* ------------------------------------------------- get_resized_image
\* What the image source may answer: whether reqwest::get succeeds, the
\* status, the Content-Type header (Option), whether the body can be read
\* and whether it decodes.
ImgStatuses == {200, 404, 500}
ContentTypes == {"image/jpeg", "image/jpg", "image/png", "text/html"}
ImgInputs ==
    { [pc |-> "fetch", fetch_ok |-> f, status |-> st, content_type |-> ct,
       bytes_ok |-> b, decodable |-> d, steps |-> <<>>, response |-> None] :
         f \in BOOLEAN, st \in ImgStatuses,
         ct \in {None} \cup {Some(c) : c \in ContentTypes},
         b \in BOOLEAN, d \in BOOLEAN }

\* A response of get_resized_image: status, message, and the content type or
\* status code the message is formatted with.
ImgResponse(status, text, ctype, code) ==
    [status |-> status, text |-> text, ctype |-> ctype, code |-> code]
ImgPanic == ImgResponse(0, "panic", None, None)

\* A check that lets every image/* type through.
IsAnyImage(ct) == ct \in {"image/jpeg", "image/jpg", "image/png"}

\* content_type != "image/jpeg" && content_type != "image/jpg" is the
\* rejection.
IsJpeg(ct) == ct \in {"image/jpeg", "image/jpg"}

\* The handler goes on to step `next`.
ImgGo(step, next) ==
    img' = [img EXCEPT !.pc = next, !.steps = Append(@, step)]

\* The handler returns `res` at step `step`.
ImgReturn(step, res) ==
    img' = [img EXCEPT !.pc = "done", !.steps = Append(@, step),
                       !.response = Some(res)]

imgothers == <<mainpc, playback_status, stateLock, tokenLock, reqvars, lastResp>>

\* reqwest::get(url).await
ImgFetch ==
    /\ img.pc = "fetch"
    /\ IF img.fetch_ok
       THEN ImgGo("fetch", "status")
       ELSE ImgReturn("fetch",
                ImgResponse(500, "could not get response for image", None, None))
    /\ UNCHANGED imgothers

\* response.status() != 200
ImgStatus ==
    /\ img.pc = "status"
    /\ IF img.status = 200
       THEN ImgGo("status", "content_type")
       ELSE ImgReturn("status",
                ImgResponse(500, "status code to get image is ", None,
                            Some(img.status)))
    /\ UNCHANGED imgothers

\* The Content-Type header, when there is one, must be a JPEG type.
ImgContentType ==
    /\ img.pc = "content_type"
    /\ IF img.content_type # None /\ ~IsJpeg(img.content_type[1])
       THEN ImgReturn("content_type",
                ImgResponse(500, "response was type: ", img.content_type, None))
       ELSE ImgGo("content_type", "bytes")
    /\ UNCHANGED imgothers

\* response.bytes().await
ImgBytes ==
    /\ img.pc = "bytes"
    /\ IF img.bytes_ok
       THEN ImgGo("bytes", "decode")
       ELSE ImgReturn("bytes", ImgResponse(500, "", None, None))
    /\ UNCHANGED imgothers

\* with_guessed_format().expect(..).decode().expect(..)
ImgDecode ==
    /\ img.pc = "decode"
    /\ IF img.decodable
       THEN ImgGo("decode", "resize")
       ELSE ImgReturn("decode", ImgPanic)
    /\ UNCHANGED imgothers

\* resize(width, height, Nearest).to_rgb8().into_raw()
ImgResize ==
    /\ img.pc = "resize"
    /\ ImgReturn("resize", ImgResponse(200, "raw rgb bytes", None, None))
    /\ UNCHANGED imgothers

ImgInit == StateInit /\ img \in ImgInputs

ImgNext ==
    \/ ImgFetch
    \/ ImgStatus
    \/ ImgContentType
    \/ ImgBytes
    \/ ImgDecode
    \/ ImgResize

ImageSpec == ImgInit /\ [][ImgNext]_vars

\* --------------------------------------------------------------- claims
Arrived(r) == pc[r] # "idle"
IsCommand(r) == Arrived(r) /\ kind[r] \in Commands
Mutations(r) == SelectSeq(calls[r], LAMBDA c : c.op \in MutationOps)
\* The device ids the provider reports.
DeviceIds == {"D1", "D2"}
\* From the start of a command's forced refresh to the return of its
\* provider call.
InSyncThenAct(r) == IsCommand(r) /\ pc[r] \in {"upd_call", "cmd_lock", "dispatch"}

\* C1: a command whose auth_token differs from the secret ends with the
\* fixed rejection (status 400, body {"message": "invalid token"}); at no
\* point of any interleaving has it made a provider call, written the
\* snapshot or taken the shared-state lock.
C1_RejectedDoesNothing ==
    \A r \in Reqs :
        (IsCommand(r) /\ token[r] # AUTH_TOKEN) =>
            /\ pc[r] \in {"gate", "done"}
            /\ calls[r] = <<>>
            /\ writes[r] = 0
            /\ stateLock # Some(r)
            /\ pc[r] = "done" =>
                  result[r] = Some([kind |-> "Response", status |-> 400,
                                    body |-> "{\"message\": \"invalid token\"}"])

\* C1 witness: a rejected command has ended while another request has made
\* provider calls and written the snapshot.
C1_Witness ==
    \E r, q \in Reqs :
        /\ r # q
        /\ IsCommand(r) /\ token[r] # AUTH_TOKEN /\ pc[r] = "done"
        /\ calls[q] # <<>> /\ writes[q] > 0

\* C2 (as claimed): while a command is between the start of its forced
\* refresh and the return of its provider call, no other request holds the
\* shared-state lock, that is, none is in a section that reads or writes
\* the snapshot.
C2_LockHeldThroughout ==
    \A r, q \in Reqs :
        (r # q /\ InSyncThenAct(r)) => stateLock # Some(q)

\* C3 (as claimed): the snapshot a command reads after its forced refresh is
\* the one its own refresh wrote.
C3_ReadsOwnRefresh ==
    \A r \in Reqs :
        /\ (IsCommand(r) /\ refreshed[r] # None /\ pc[r] = "dispatch") =>
               playback[r] = refreshed[r][1]
        /\ (IsCommand(r) /\ refreshed[r] # None /\ pc[r] = "done"
               /\ dispatched[r] = None) =>
               playback[r] = refreshed[r][1]

\* C4: when update_state completes, in main or in a command, the snapshot is
\* {is_playing, floor(progress in seconds), device_id} of the response for
\* an active item, absent for no item and absent for a failed call, whatever
\* the snapshot was before; the command is handed no error.
C4_Synchronize ==
    [][ \A r \in Reqs \cup {MainId} :
          LET completes ==
                IF r = MainId
                THEN mainpc = "sync" /\ mainpc' = "serving"
                ELSE pc[r] = "upd_call" /\ pc'[r] = "cmd_lock"
              res == lastResp'[1]
          IN completes =>
               /\ (res.ok /\ res.ctx # None) =>
                     playback_status' =
                        Some([is_playing |-> res.ctx[1].is_playing,
                              position |-> res.ctx[1].progress[1] \div 1000,
                              device_id |-> res.ctx[1].device_id[1]])
               /\ ~(res.ok /\ res.ctx # None) => playback_status' = None
               /\ r # MainId => result'[r] = None
      ]_vars

\* C4 witness: a command's update_state has completed on an active response
\* with progress 2999 ms and has replaced an absent snapshot by one with
\* position 2.
C4_Witness ==
    \E r \in Reqs :
        /\ pc[r] = "cmd_lock"
        /\ lastResp = Some(OkSome(Context(FALSE, Some(2999), Some("D2"), "track")))
        /\ playback_status = Some(PlaybackState(FALSE, 2, "D2"))
        /\ refreshed[r] = Some(playback_status)

\* C5: a toggle that read a present snapshot makes exactly one mutation call:
\* pause on the snapshot's device and no resume if is_playing, else resume on
\* the snapshot's device at the snapshot's position and no pause.
C5_ToggleDispatch ==
    \A r \in Reqs :
        (IsCommand(r) /\ kind[r] = "toggle") =>
            /\ pc[r] = "dispatch" =>
                  /\ playback[r] # None
                  /\ Len(Mutations(r)) = 1
                  /\ playback[r][1].is_playing =>
                        Mutations(r)[1] =
                           Call("pause", Some(playback[r][1].device_id), None)
                  /\ ~playback[r][1].is_playing =>
                        Mutations(r)[1] =
                           Call("resume", Some(playback[r][1].device_id),
                                Some(playback[r][1].position))
            /\ (pc[r] = "done" /\ dispatched[r] # None) =>
                  /\ Len(Mutations(r)) = 1
                  /\ Mutations(r)[1].device = Some(playback[r][1].device_id)
                  /\ \/ /\ Mutations(r)[1].op = "pause"
                        /\ Mutations(r)[1].pos = None
                        /\ result[r][1].body = "{\"message\": \"playback paused\"}"
                     \/ /\ Mutations(r)[1].op = "resume"
                        /\ Mutations(r)[1].pos = Some(playback[r][1].position)
                        /\ result[r][1].body = "{\"message\": \"playback resumed\"}"

\* C5 witness: one toggle has ended after a pause on D1 and another after a
\* resume on D2 at position 2.
C5_Witness ==
    \E r, q \in Reqs :
        /\ kind[r] = "toggle" /\ pc[r] = "done"
        /\ Mutations(r) = << Call("pause", Some("D1"), None) >>
        /\ kind[q] = "toggle" /\ pc[q] = "done"
        /\ Mutations(q) = << Call("resume", Some("D2"), Some(2)) >>

\* C6 (as claimed): when a toggle's dispatch has returned, the shared
\* snapshot's is_playing is false, whichever branch was taken.
C6_SharedFlagFalse ==
    [][ \A r \in Reqs :
          (kind[r] = "toggle" /\ pc[r] = "dispatch" /\ pc'[r] = "done") =>
              (playback_status' # None /\ ~playback_status'[1].is_playing)
      ]_vars

\* C6 (amended): when a toggle's dispatch has returned, the handler's own
\* copy of the snapshot has is_playing false, whichever branch was taken;
\* the shared snapshot is not written by the dispatch and keeps the
\* is_playing of the last synchronization.
C6_LocalFlagFalse ==
    [][ \A r \in Reqs :
          (kind[r] = "toggle" /\ pc[r] = "dispatch" /\ pc'[r] = "done") =>
              /\ playback'[r] # None
              /\ ~playback'[r][1].is_playing
              /\ playback_status' = playback_status
      ]_vars

\* C6 witness: a toggle has ended on its pause branch; its copy says not
\* playing and the shared snapshot still says playing.
C6_Witness ==
    \E r \in Reqs :
        /\ kind[r] = "toggle" /\ pc[r] = "done"
        /\ result[r] = Some(Response(200, "{\"message\": \"playback paused\"}"))
        /\ playback[r] # None /\ ~playback[r][1].is_playing
        /\ playback_status # None /\ playback_status[1].is_playing

\* C7 (as claimed): whenever no handler is between its query and its write,
\* the shared snapshot is the projection of the most recent current-playback
\* response (absent for "nothing playing" and for an error).  Responses
\* without a progress or a device id, for which the claim names no
\* projection, are left out.
C7_SnapshotIsLastResponse ==
    (lastResp # None /\ \A r \in Reqs : pc[r] # "rd_track") =>
        LET res == lastResp[1] IN
        IF res.ok /\ res.ctx # None
        THEN (res.ctx[1].progress # None /\ res.ctx[1].device_id # None) =>
                playback_status =
                   Some([is_playing |-> res.ctx[1].is_playing,
                         position |-> res.ctx[1].progress[1] \div 1000,
                         device_id |-> res.ctx[1].device_id[1]])
        ELSE playback_status = None

\* C8 (as claimed): a command that passed the gate, completed its refresh
\* and found the snapshot absent ends with an explicit error value.
C8_AbsentIsExplicitError ==
    \A r \in Reqs :
        (IsCommand(r) /\ pc[r] = "done" /\ refreshed[r] # None
            /\ dispatched[r] = None) =>
            result[r][1].kind = "Err"

\* C9: every mutation call of a command carries the device id of the
\* present snapshot the command read, an id the provider reported; a command
\* whose refresh did not complete (no device id reported) or that read an
\* absent snapshot has made no mutation call.
C9_DeviceFromSnapshot ==
    \A r \in Reqs :
        /\ \A i \in 1..Len(calls[r]) :
              calls[r][i].op \in MutationOps =>
                  /\ IsCommand(r)
                  /\ playback[r] # None
                  /\ calls[r][i].device = Some(playback[r][1].device_id)
                  /\ playback[r][1].device_id \in DeviceIds
        /\ (refreshed[r] = None \/ playback[r] = None) => Mutations(r) = <<>>

\* C9 witness: a next request has ended without a mutation call after its
\* refresh found nothing playing, and a restart request has ended without a
\* mutation call after the provider reported no device id.
C9_Witness ==
    \E r, q \in Reqs :
        /\ kind[r] = "next" /\ pc[r] = "done" /\ refreshed[r] = Some(None)
        /\ playback[r] = None /\ calls[r] = << QueryCall >>
        /\ kind[q] = "restart" /\ pc[q] = "done" /\ refreshed[q] = None
        /\ calls[q] = << QueryCall >>
        /\ lastResp = Some(OkSome(Context(FALSE, Some(500), None, "track")))

\* C10: when the provider call of a command returns, with success or with
\* failure, the command ends with status 200 and the fixed acknowledgement
\* of its kind, and the shared snapshot is left as it was.
C10_DispatchAlwaysAcks ==
    [][ \A r \in Reqs :
          (pc[r] = "dispatch" /\ pc'[r] # "dispatch") =>
              /\ pc'[r] = "done"
              /\ result'[r] # None
              /\ result'[r][1].kind = "Response"
              /\ result'[r][1].status = 200
              /\ result'[r][1].body \in
                   CASE kind[r] = "toggle" ->
                           {"{\"message\": \"playback paused\"}",
                            "{\"message\": \"playback resumed\"}"}
                     [] kind[r] = "next" ->
                           {"{\"message\": \"successfully skipped to the next track\""}
                     [] kind[r] = "previous" ->
                           {"{\"message\": \"successfully skipped to the previous track\""}
                     [] OTHER ->
                           {"{\"message\": \"successfully restarted the track\""}
              /\ playback_status' = playback_status
      ]_vars

\* C10 witness: a command whose provider call failed has ended with status
\* 200, and the snapshot it acted on is still the shared one.
C10_Witness ==
    \E r \in Reqs :
        /\ IsCommand(r) /\ pc[r] = "done"
        /\ dispatched[r] = Some(FALSE)
        /\ result[r] # None /\ result[r][1].status = 200
        /\ playback_status # None
        /\ playback_status[1].device_id = playback[r][1].device_id

\* A read ends in this step.
ReadEnds(r) == kind[r] = "read" /\ pc[r] \in {"rd_call", "rd_track"} /\ pc'[r] = "done"
\* The response is an active item.
IsActive(res) == res.ok /\ res.ctx # None

C12_ReadRefreshesAsSynchronize ==
    [][ \A r \in Reqs :
          (ReadEnds(r) /\ ~UpdateOutcome(lastResp'[1]).panic) =>
              playback_status' = UpdateOutcome(lastResp'[1]).status
      ]_vars

\* C13: a next, previous or restart request that read a present snapshot
\* makes exactly one mutation call, of its own kind, on the snapshot's
\* device: skip-forward, skip-backward, or seek to offset zero.
C13_SkipAndRestartDispatch ==
    \A r \in Reqs :
        (IsCommand(r) /\ kind[r] \in {"next", "previous", "restart"}) =>
            /\ pc[r] = "dispatch" => playback[r] # None
            /\ playback[r] # None =>
                  Mutations(r) =
                     << [op |-> CASE kind[r] = "next" -> "next"
                                  [] kind[r] = "previous" -> "previous"
                                  [] OTHER -> "seek",
                         device |-> Some(playback[r][1].device_id),
                         pos |-> IF kind[r] = "restart" THEN Some(0) ELSE None] >>

\* C13 witness: a previous request has ended after one skip-backward on D2
\* and a next or restart request after one call on D1.
C13_Witness ==
    \E r, q \in Reqs :
        /\ kind[r] = "previous" /\ pc[r] = "done"
        /\ Mutations(r) = << Call("previous", Some("D2"), None) >>
        /\ kind[q] \in {"next", "restart"} /\ pc[q] = "done"
        /\ Len(Mutations(q)) = 1 /\ Mutations(q)[1].device = Some("D1")

\* C14: two restart requests that read present snapshots with the same
\* device id make the same call, seek(0, device id), whatever is_playing and
\* position the snapshots hold and whatever ran before.
C14_RestartIdempotent ==
    \A r, q \in Reqs :
        (/\ IsCommand(r) /\ kind[r] = "restart" /\ playback[r] # None
         /\ IsCommand(q) /\ kind[q] = "restart" /\ playback[q] # None
         /\ playback[r][1].device_id = playback[q][1].device_id) =>
            /\ Mutations(r) = Mutations(q)
            /\ Mutations(r) = << Call("seek", Some(playback[r][1].device_id), Some(0)) >>

\* C14 witness: two restart requests have ended after reading snapshots of
\* the same device that differ in is_playing and in position.
C14_Witness ==
    \E r, q \in Reqs :
        /\ r < q
        /\ kind[r] = "restart" /\ pc[r] = "done" /\ dispatched[r] # None
        /\ kind[q] = "restart" /\ pc[q] = "done" /\ dispatched[q] # None
        /\ playback[r][1].device_id = playback[q][1].device_id
        /\ playback[r][1].is_playing # playback[q][1].is_playing
        /\ playback[r][1].position # playback[q][1].position

\* Number of calls of one kind a request has made.
CallCount(r, op) == Len(SelectSeq(calls[r], LAMBDA c : c.op = op))

\* C15: no remote call is repeated.  A request makes at most one
\* current-playback query, one track lookup and one mutation call at any
\* point; an authorized command that has ended has made exactly one query,
\* at most one mutation call and no lookup; a read that has ended has made
\* exactly one query, at most one lookup and no mutation call; a failed
\* mutation call or lookup is the request's only one.
C15_NoRetry ==
    \A r \in Reqs :
        /\ CallCount(r, "current_playback") <= 1
        /\ CallCount(r, "track") <= 1
        /\ Len(Mutations(r)) <= 1
        /\ (IsCommand(r) /\ token[r] = AUTH_TOKEN /\ pc[r] = "done") =>
              /\ CallCount(r, "current_playback") = 1
              /\ CallCount(r, "track") = 0
              /\ dispatched[r] # None => Len(Mutations(r)) = 1
        /\ (Arrived(r) /\ kind[r] = "read" /\ pc[r] = "done") =>
              /\ CallCount(r, "current_playback") = 1
              /\ Mutations(r) = <<>>
        /\ Len(calls[r]) <= 2

\* C15 witness: a command whose mutation call failed and a read whose track
\* lookup made it abort have both ended with two calls each.
C15_Witness ==
    \E r, q \in Reqs :
        /\ IsCommand(r) /\ pc[r] = "done" /\ dispatched[r] = Some(FALSE)
        /\ Len(calls[r]) = 2
        /\ kind[q] = "read" /\ pc[q] = "done" /\ result[q] = Some(Panic)
        /\ calls[q] = << QueryCall, TrackCall >>

\* The order of the steps of get_resized_image.
ImgOrder == << "fetch", "status", "content_type", "bytes", "decode", "resize" >>

CallInFlight(r) == pc[r] \in {"upd_call", "dispatch", "rd_call", "rd_track"}

\* C17: while a provider call is in flight its issuer holds the
\* shared-state lock: the request that made it, or main for the startup
\* query.  No other request has a call in flight then, and none can take the
\* step that starts a call or reads the snapshot.
C17_CallsUnderLock ==
    /\ mainpc = "sync" =>
          /\ stateLock = Some(MainId)
          /\ \A q \in Reqs : ~Arrived(q)
    /\ \A r \in Reqs :
          CallInFlight(r) =>
              /\ stateLock = Some(r)
              /\ \A q \in Reqs \ {r} :
                    /\ ~CallInFlight(q)
                    /\ ~ENABLED UpdLock(q)
                    /\ ~ENABLED CmdLock(q)
                    /\ ~ENABLED RdLock(q)

\* C17 witness: a command's mutation call is in flight while a read waits
\* for the lock.
C17_Witness ==
    \E r, q \in Reqs :
        /\ pc[r] = "dispatch" /\ stateLock = Some(r)
        /\ kind[q] = "read" /\ pc[q] = "rd_lock"

\* A command is between its gate and its return.
PastGate(r) == IsCommand(r) /\ pc[r] \in {"upd_lock", "upd_call", "cmd_lock", "dispatch"}

\* C18: a command holds the auth-secret lock from its gate to its return, so
\* at most one command is past its gate at a time and no other command can
\* pass its gate then; a request that holds the shared-state lock while a
\* command is between its refresh and its dispatch is a get_current_playback.
C18_CommandsExclusive ==
    /\ \A r \in Reqs : PastGate(r) <=> tokenLock = Some(r)
    /\ \A r, q \in Reqs : (PastGate(r) /\ PastGate(q)) => r = q
    /\ \A r, q \in Reqs :
          (r # q /\ PastGate(r)) =>
              /\ ~ENABLED Gate(q)
              /\ stateLock = Some(q) => (Arrived(q) /\ kind[q] = "read")

\* C18 witness: an authorized command waits at its gate while another command
\* is between its refresh and its dispatch.
C18_Witness ==
    \E r, q \in Reqs :
        /\ IsCommand(r) /\ pc[r] = "cmd_lock" /\ tokenLock = Some(r)
        /\ IsCommand(q) /\ pc[q] = "gate" /\ token[q] = AUTH_TOKEN

\* A request has arrived and has not ended.
Pending(r) == pc[r] \notin {"idle", "done"}

\* Some pending request can take a step whenever one is pending, and a lock
\* is owned only by main during the startup query or by a pending request.
NoDeadlock ==
    /\ (\E r \in Reqs : Pending(r)) => \E r \in Reqs : ENABLED (Acquire(r) \/ Return(r))
    /\ \A r \in Reqs : stateLock = Some(r) => Pending(r)
    /\ \A r \in Reqs : tokenLock = Some(r) => Pending(r)

\* The number of steps a handler at position p has left at most.
StepsLeft(p) ==
    CASE p = "idle" -> 6
      [] p = "gate" -> 5
      [] p = "upd_lock" -> 4
      [] p = "upd_call" -> 3
      [] p = "cmd_lock" -> 2
      [] p = "dispatch" -> 1
      [] p = "rd_lock" -> 3
      [] p = "rd_call" -> 2
      [] p = "rd_track" -> 1
      [] OTHER -> 0

\* C19: the two locks never deadlock.  In every reachable state with a
\* pending request some pending request can take a step, the locks are owned
\* by pending requests only (an ended or aborted request owns none), and
\* every step after startup brings one request nearer to its end and moves no
\* other; so with provider calls that return and fair lock acquisition every
\* request ends.
C19_NoDeadlockAndProgress ==
    /\ []NoDeadlock
    /\ [][ \/ mainpc' # mainpc
           \/ \E r \in Reqs :
                 /\ StepsLeft(pc'[r]) < StepsLeft(pc[r])
                 /\ \A q \in Reqs \ {r} : pc'[q] = pc[q]
       ]_vars

\* C19, stated on behaviours under FairSpec: every request that has arrived
\* ends.
C19_EveryRequestEnds ==
    \A r \in Reqs : Pending(r) ~> (pc[r] = "done")

\* C19 witness: a next request has aborted on an absent snapshot while it
\* held both locks, and a later command has since taken both locks and ended.
C19_Witness ==
    \E r, q \in Reqs :
        /\ r < q
        /\ kind[r] = "next" /\ pc[r] = "done" /\ result[r] = Some(Panic)
        /\ refreshed[r] # None
        /\ IsCommand(q) /\ pc[q] = "done" /\ dispatched[q] # None
        /\ stateLock = None /\ tokenLock = None

\* No request has sent a provider query yet.
NoRequestQueried == \A r \in Reqs : calls[r] = <<>>

\* No request's provider query has returned yet: each is before its query,
\* waits for its answer, or was turned away at the gate.
NoQueryReturned ==
    \A r \in Reqs :
        \/ pc[r] \in {"idle", "gate", "upd_lock", "upd_call", "rd_lock", "rd_call"}
        \/ pc[r] = "done" /\ calls[r] = <<>>

\* C20: the shared state starts with an absent snapshot and stays absent
\* until the startup synchronization is over; no request handler runs before
\* that synchronization has completed (if it aborts, the process ends and
\* none ever runs); until a request's own query returns the snapshot is the
\* result of the startup synchronization's response; and there is one
\* snapshot slot, holding a snapshot or nothing.
C20_StartupSyncFirst ==
    /\ mainpc \in {"start", "sync"} =>
          /\ playback_status = None
          /\ lastResp = None
    /\ mainpc # "serving" =>
          /\ \A r \in Reqs : ~Arrived(r)
          /\ NoRequestQueried
    /\ (mainpc = "serving" /\ NoQueryReturned) =>
          /\ lastResp # None
          /\ ~UpdateOutcome(lastResp[1]).panic
          /\ playback_status = UpdateOutcome(lastResp[1]).status
    /\ Len(playback_status) <= 1

\* C20 witness: a request holds the state lock for its first look at the
\* snapshot, no request's query has returned, and the snapshot is the
\* present one of the startup synchronization.
C20_Witness ==
    \E r \in Reqs :
        /\ stateLock = Some(r)
        /\ NoQueryReturned
        /\ mainpc = "serving"
        /\ playback_status # None

====
